---- MODULE Spec2Model ----
(***************************************************************************)
(* Model of the raft-core node state machine (crates/raft-core/src/node.rs) *)
(* and of a fixed three-node cluster whose nodes exchange the messages the  *)
(* handlers produce.                                                        *)
(*                                                                          *)
(* A node is a record with the fields of struct RaftNode.  Every method of  *)
(* RaftNode is an operator of the same name that takes the node record and  *)
(* returns the record after the call (with the method's return value where  *)
(* it has one).  These specifications drive the operators:                  *)
(*   Spec         the cluster: messages are kept in a set, so they can be   *)
(*                delivered in any order, more than once, or never;         *)
(*   DualSpec     the cluster continued from a state that Spec reaches;     *)
(*   NodeSpec     one node whose handlers are invoked in any order with     *)
(*                message fields drawn from bounded sets;                   *)
(*   VoteSpec     one candidate of a five-node cluster and the vote         *)
(*                responses it can be handed;                               *)
(*   PreVoteSpec  the cluster with the PreVote phase and election timers;   *)
(*   RestartSpec  the elections of the cluster with crashes and restarts;   *)
(*   StorageSpec  the two Storage implementations of raft-storage;          *)
(*   SoloSpec     the only node of a one-node cluster;                      *)
(*   WasmSpec     the cluster with the responses to AppendEntries handed to *)
(*                the leader by on_message of raft-wasm;                    *)
(*   CatchUpSpec  one leader replicating to one follower, one exchange at a *)
(*                time (FairCatchUpSpec: every message is delivered);       *)
(*   SplitSpec    the cluster continued from two leaders of term 2 with     *)
(*                different logs, a state SplitPathSpec reaches.            *)
(***************************************************************************)
EXTENDS Naturals, Sequences, FiniteSets

VARIABLES
    nodes,      \* id -> RaftNode record
    msgs,       \* messages handed to the transport (never removed)
    leaders,    \* history: <<term, id>> for every become_leader
    granted,    \* history: <<voter, term, candidate>> for every granted vote
    committed,  \* history: <<term, entry>> for entries a leader's commit covered
    applied,    \* history: entries yielded by get_entries_to_apply
    prevote,    \* id -> the PreVote phase and the election timer of the node
    store       \* the two Storage implementations and the operation in progress

vars == <<nodes, msgs, leaders, granted, committed, applied, prevote, store>>

\* ---- bounds ----
MaxTerm == 2
MaxLogLen == 1
\* elections started and AppendEntries messages built in one run of the cluster
MaxElections == 2
MaxAppendEntries == 1
\* the same in a run that continues from DualInit
MoreElections == 1
MoreAppendEntries == 2
\* the largest term and log index of NodeSpec's inputs
NodeMaxTerm == 2
NodeMaxIndex == 2
\* the most PreVoteResponse messages a run of PreVoteSpec hands to the transport
MaxPreVoteResponses == 3
\* the largest term saved to a Storage and the longest log stored in one
StoreMaxTerm == 1
StoreMaxLog == 2

\* ---- the fixed cluster ----
cluster_nodes == <<1, 2, 3>>
Ids == {cluster_nodes[k] : k \in DOMAIN cluster_nodes}
Commands == {1, 2, 3}

\* Option<u64>::None for voted_for (node ids are >= 1)
None == 0
\* Option<&LogEntry>::None of get_entry: no entry of a log is looked up under
\* index 0, so a record with index 0 stands for "no entry"
NoEntry == [term |-> 0, index |-> 0, command |-> 0]
\* Option<RaftMessage>::None of create_append_entries / create_heartbeat
NoMessage == [mtype |-> "None"]
EmptyMap == [p \in {} |-> 0]

LogEntry(term, index, command) == [term |-> term, index |-> index, command |-> command]

\* RaftNode::new
new(id, cluster_nodes_) ==
    [ id |-> id,
      cluster_nodes |-> cluster_nodes_,
      current_term |-> 0,
      voted_for |-> None,
      log |-> <<>>,
      state |-> "Follower",
      commit_index |-> 0,
      last_applied |-> 0,
      next_index |-> EmptyMap,
      match_index |-> EmptyMap,
      votes_received |-> <<>> ]

Contains(seq, x) == \E k \in DOMAIN seq : seq[k] = x

\* ---- state transitions ----

quorum_size(n) == (Len(n.cluster_nodes) \div 2) + 1

has_quorum(n) == Len(n.votes_received) >= quorum_size(n)

\* ---- log helpers ----

last_log_index(n) == IF n.log = <<>> THEN 0 ELSE n.log[Len(n.log)].index

last_log_term(n) == IF n.log = <<>> THEN 0 ELSE n.log[Len(n.log)].term

get_entry(n, index) ==
    LET found == SelectSeq(n.log, LAMBDA e : e.index = index)
    IN  IF index = 0 \/ found = <<>> THEN NoEntry ELSE Head(found)

get_term_at(n, index) ==
    LET e == get_entry(n, index)
    IN  IF e = NoEntry THEN 0 ELSE e.term

\* append_entry that gives the new entry the index of the last one
append_entry_same_index(n, command) ==
    [n EXCEPT !.log = Append(n.log, LogEntry(n.current_term, last_log_index(n), command))]

\* append_entry that stamps the new entry with the term after current_term
append_entry_next_term(n, command) ==
    [n EXCEPT !.log = Append(n.log, LogEntry(n.current_term + 1, last_log_index(n) + 1, command))]

append_entry(n, command) ==
    [n EXCEPT !.log = Append(n.log, LogEntry(n.current_term, last_log_index(n) + 1, command))]

\* returns the node after the call and the VoteRequest to send to all peers
start_election(n) ==
    LET n1 == [n EXCEPT !.state = "Candidate",
                        !.current_term = n.current_term + 1,
                        !.voted_for = n.id,
                        !.votes_received = <<n.id>>]
    IN  [ node |-> n1,
          msg  |-> [ mtype |-> "VoteRequest",
                     term |-> n1.current_term,
                     candidate_id |-> n1.id,
                     last_log_index |-> last_log_index(n1),
                     last_log_term |-> last_log_term(n1) ] ]

\* become_leader that fills next_index and match_index only for the peers
\* that have no value yet
become_leader_keeping_indices(n) ==
    LET last_log_idx == last_log_index(n)
        peers == {n.cluster_nodes[k] : k \in DOMAIN n.cluster_nodes} \ {n.id}
    IN  [n EXCEPT !.state = "Leader",
                  !.votes_received = <<>>,
                  !.next_index = [p \in (DOMAIN n.next_index) \cup peers |->
                                     IF p \in DOMAIN n.next_index
                                     THEN n.next_index[p] ELSE last_log_idx + 1],
                  !.match_index = [p \in (DOMAIN n.match_index) \cup peers |->
                                     IF p \in DOMAIN n.match_index
                                     THEN n.match_index[p] ELSE 0]]

become_leader(n) ==
    LET last_log_idx == last_log_index(n)
        peers == {n.cluster_nodes[k] : k \in DOMAIN n.cluster_nodes} \ {n.id}
    IN  [n EXCEPT !.state = "Leader",
                  !.votes_received = <<>>,
                  !.next_index = [p \in (DOMAIN n.next_index) \cup peers |->
                                     IF p \in peers THEN last_log_idx + 1 ELSE n.next_index[p]],
                  !.match_index = [p \in (DOMAIN n.match_index) \cup peers |->
                                     IF p \in peers THEN 0 ELSE n.match_index[p]]]

become_follower(n, term) ==
    [n EXCEPT !.state = "Follower",
              !.current_term = term,
              !.voted_for = None,
              !.votes_received = <<>>]

\* ---- message handling ----

\* the comparison with the index first and the term only on a tie
is_log_up_to_date_index_first(n, last_log_index_, last_log_term_) ==
    LET our_last_term == last_log_term(n)
        our_last_index == last_log_index(n)
    IN  IF last_log_index_ # our_last_index
        THEN last_log_index_ > our_last_index
        ELSE last_log_term_ >= our_last_term

is_log_up_to_date(n, last_log_index_, last_log_term_) ==
    LET our_last_term == last_log_term(n)
        our_last_index == last_log_index(n)
    IN  IF last_log_term_ # our_last_term
        THEN last_log_term_ > our_last_term
        ELSE last_log_index_ >= our_last_index

\* handle_vote_request without the early return for term < current_term
handle_vote_request_no_stale_check(n, term, candidate_id, last_log_index_, last_log_term_) ==
    LET n1 == IF term # n.current_term THEN become_follower(n, term) ELSE n
        can_vote == n1.voted_for = None \/ n1.voted_for = candidate_id
        log_ok == is_log_up_to_date(n1, last_log_index_, last_log_term_)
        vote_granted == can_vote /\ log_ok
        n2 == IF vote_granted THEN [n1 EXCEPT !.voted_for = candidate_id] ELSE n1
    IN  [node |-> n2, term |-> n2.current_term, vote_granted |-> vote_granted,
         reset |-> vote_granted]

\* returns the node after the call, the VoteResponse fields and the timer flag
handle_vote_request(n, term, candidate_id, last_log_index_, last_log_term_) ==
    IF term < n.current_term
    THEN [node |-> n, term |-> n.current_term, vote_granted |-> FALSE, reset |-> FALSE]
    ELSE LET n1 == IF term > n.current_term THEN become_follower(n, term) ELSE n
             can_vote == n1.voted_for = None \/ n1.voted_for = candidate_id
             log_ok == is_log_up_to_date(n1, last_log_index_, last_log_term_)
             vote_granted == can_vote /\ log_ok
             n2 == IF vote_granted THEN [n1 EXCEPT !.voted_for = candidate_id] ELSE n1
         IN  [node |-> n2, term |-> n2.current_term, vote_granted |-> vote_granted,
              reset |-> vote_granted]

\* handle_vote_response without the term check: a grant of any term that is
\* not above current_term is counted
handle_vote_response_any_term(n, term, vote_granted, from) ==
    IF term > n.current_term
    THEN [node |-> become_follower(n, term), became_leader |-> FALSE]
    ELSE IF n.state # "Candidate"
    THEN [node |-> n, became_leader |-> FALSE]
    ELSE IF vote_granted /\ ~Contains(n.votes_received, from)
    THEN LET n1 == [n EXCEPT !.votes_received = Append(n.votes_received, from)]
         IN  IF has_quorum(n1)
             THEN [node |-> become_leader(n1), became_leader |-> TRUE]
             ELSE [node |-> n1, became_leader |-> FALSE]
    ELSE [node |-> n, became_leader |-> FALSE]

\* handle_vote_response without the membership check on votes_received
handle_vote_response_counting_twice(n, term, vote_granted, from) ==
    IF term > n.current_term
    THEN [node |-> become_follower(n, term), became_leader |-> FALSE]
    ELSE IF n.state # "Candidate"
    THEN [node |-> n, became_leader |-> FALSE]
    ELSE IF term # n.current_term
    THEN [node |-> n, became_leader |-> FALSE]
    ELSE IF vote_granted
    THEN LET n1 == [n EXCEPT !.votes_received = Append(n.votes_received, from)]
         IN  IF has_quorum(n1)
             THEN [node |-> become_leader(n1), became_leader |-> TRUE]
             ELSE [node |-> n1, became_leader |-> FALSE]
    ELSE [node |-> n, became_leader |-> FALSE]

\* returns the node after the call and whether it just became leader
handle_vote_response(n, term, vote_granted, from) ==
    IF term > n.current_term
    THEN [node |-> become_follower(n, term), became_leader |-> FALSE]
    ELSE IF n.state # "Candidate"
    THEN [node |-> n, became_leader |-> FALSE]
    ELSE IF term # n.current_term
    THEN [node |-> n, became_leader |-> FALSE]
    ELSE IF vote_granted /\ ~Contains(n.votes_received, from)
    THEN LET n1 == [n EXCEPT !.votes_received = Append(n.votes_received, from)]
         IN  IF has_quorum(n1)
             THEN [node |-> become_leader(n1), became_leader |-> TRUE]
             ELSE [node |-> n1, became_leader |-> FALSE]
    ELSE [node |-> n, became_leader |-> FALSE]

create_append_entries(n, follower_id) ==
    IF n.state # "Leader" \/ follower_id \notin DOMAIN n.next_index
    THEN NoMessage
    ELSE LET next_idx == n.next_index[follower_id]
             prev_log_index == IF next_idx > 1 THEN next_idx - 1 ELSE 0
         IN  [ mtype |-> "AppendEntries",
               term |-> n.current_term,
               leader_id |-> n.id,
               prev_log_index |-> prev_log_index,
               prev_log_term |-> get_term_at(n, prev_log_index),
               entries |-> SelectSeq(n.log, LAMBDA e : e.index >= next_idx),
               leader_commit |-> n.commit_index ]

create_heartbeat(n) ==
    IF n.state # "Leader"
    THEN NoMessage
    ELSE [ mtype |-> "AppendEntries",
           term |-> n.current_term,
           leader_id |-> n.id,
           prev_log_index |-> last_log_index(n),
           prev_log_term |-> last_log_term(n),
           entries |-> <<>>,
           leader_commit |-> n.commit_index ]

\* the entry loop without its second check (append only what is not there)
RECURSIVE merge_always_push(_, _)
merge_always_push(n, entries) ==
    IF entries = <<>>
    THEN n
    ELSE LET entry == Head(entries)
             existing == get_entry(n, entry.index)
             n1 == IF existing # NoEntry /\ existing.term # entry.term
                   THEN [n EXCEPT !.log = SelectSeq(n.log, LAMBDA e : e.index < entry.index)]
                   ELSE n
         IN  merge_always_push([n1 EXCEPT !.log = Append(n1.log, entry)], Tail(entries))

\* the loop "for entry in entries" of handle_append_entries
RECURSIVE merge(_, _)
merge(n, entries) ==
    IF entries = <<>>
    THEN n
    ELSE LET entry == Head(entries)
             existing == get_entry(n, entry.index)
             n1 == IF existing # NoEntry /\ existing.term # entry.term
                   THEN [n EXCEPT !.log = SelectSeq(n.log, LAMBDA e : e.index < entry.index)]
                   ELSE n
             n2 == IF get_entry(n1, entry.index) = NoEntry
                   THEN [n1 EXCEPT !.log = Append(n1.log, entry)]
                   ELSE n1
         IN  merge(n2, Tail(entries))

Min(a, b) == IF a < b THEN a ELSE b

\* handle_append_entries without its first check (term < current_term)
handle_append_entries_no_stale_check(n, term, leader_id, prev_log_index, prev_log_term, entries, leader_commit) ==
    LET n1 == become_follower(n, term)
        log_consistent == IF prev_log_index = 0
                          THEN TRUE
                          ELSE get_term_at(n1, prev_log_index) = prev_log_term
    IN  IF ~log_consistent
        THEN [node |-> n1, term |-> n1.current_term, success |-> FALSE, reset |-> TRUE]
        ELSE LET n2 == merge(n1, entries)
                 n3 == IF leader_commit > n2.commit_index
                       THEN [n2 EXCEPT !.commit_index = Min(leader_commit, last_log_index(n2))]
                       ELSE n2
             IN  [node |-> n3, term |-> n3.current_term, success |-> TRUE, reset |-> TRUE]

\* handle_append_entries that steps down for a higher term only
handle_append_entries_higher_term_only(n, term, leader_id, prev_log_index, prev_log_term, entries, leader_commit) ==
    IF term < n.current_term
    THEN [node |-> n, term |-> n.current_term, success |-> FALSE, reset |-> FALSE]
    ELSE LET n1 == IF term > n.current_term THEN become_follower(n, term) ELSE n
             log_consistent == IF prev_log_index = 0
                               THEN TRUE
                               ELSE get_term_at(n1, prev_log_index) = prev_log_term
         IN  IF ~log_consistent
             THEN [node |-> n1, term |-> n1.current_term, success |-> FALSE, reset |-> TRUE]
             ELSE LET n2 == merge(n1, entries)
                      n3 == IF leader_commit > n2.commit_index
                            THEN [n2 EXCEPT !.commit_index = Min(leader_commit, last_log_index(n2))]
                            ELSE n2
                  IN  [node |-> n3, term |-> n3.current_term, success |-> TRUE, reset |-> TRUE]

\* returns the node after the call, the AppendEntriesResponse fields and the timer flag
handle_append_entries(n, term, leader_id, prev_log_index, prev_log_term, entries, leader_commit) ==
    IF term < n.current_term
    THEN [node |-> n, term |-> n.current_term, success |-> FALSE, reset |-> FALSE]
    ELSE LET n1 == IF term >= n.current_term THEN become_follower(n, term) ELSE n
             log_consistent == IF prev_log_index = 0
                               THEN TRUE
                               ELSE get_term_at(n1, prev_log_index) = prev_log_term
         IN  IF ~log_consistent
             THEN [node |-> n1, term |-> n1.current_term, success |-> FALSE, reset |-> TRUE]
             ELSE LET n2 == merge(n1, entries)
                      n3 == IF leader_commit > n2.commit_index
                            THEN [n2 EXCEPT !.commit_index = Min(leader_commit, last_log_index(n2))]
                            ELSE n2
                  IN  [node |-> n3, term |-> n3.current_term, success |-> TRUE, reset |-> TRUE]

\* the loop of try_advance_commit_index with a count that leaves the leader out
RECURSIVE advance_loop_without_self(_, _, _)
advance_loop_without_self(n, k, last) ==
    IF k > last
    THEN n
    ELSE LET count == Cardinality({p \in DOMAIN n.match_index :
                                      p # n.id /\ n.match_index[p] >= k})
             n1 == IF get_term_at(n, k) # n.current_term
                   THEN n
                   ELSE IF count >= quorum_size(n)
                   THEN [n EXCEPT !.commit_index = k]
                   ELSE n
         IN  advance_loop_without_self(n1, k + 1, last)

\* the loop of try_advance_commit_index without its check of the entry's term
RECURSIVE advance_loop_any_term(_, _, _)
advance_loop_any_term(n, k, last) ==
    IF k > last
    THEN n
    ELSE LET count == 1 + Cardinality({p \in DOMAIN n.match_index :
                                          p # n.id /\ n.match_index[p] >= k})
             n1 == IF count >= quorum_size(n)
                   THEN [n EXCEPT !.commit_index = k]
                   ELSE n
         IN  advance_loop_any_term(n1, k + 1, last)

\* the loop "for n in (commit_index + 1)..=last_log_index()" of try_advance_commit_index
RECURSIVE advance_loop(_, _, _)
advance_loop(n, k, last) ==
    IF k > last
    THEN n
    ELSE LET count == 1 + Cardinality({p \in DOMAIN n.match_index :
                                          p # n.id /\ n.match_index[p] >= k})
             n1 == IF get_term_at(n, k) # n.current_term
                   THEN n
                   ELSE IF count >= quorum_size(n)
                   THEN [n EXCEPT !.commit_index = k]
                   ELSE n
         IN  advance_loop(n1, k + 1, last)

\* returns the node after the call and whether commit_index was advanced
try_advance_commit_index(n) ==
    LET n1 == advance_loop(n, n.commit_index + 1, last_log_index(n))
    IN  [node |-> n1, advanced |-> n1.commit_index > n.commit_index]

\* handle_append_entries_response that leaves next_index alone on a failure
handle_append_entries_response_no_backoff(n, term, success, from, match_index_hint) ==
    IF term > n.current_term
    THEN [node |-> become_follower(n, term), advanced |-> FALSE]
    ELSE IF n.state # "Leader"
    THEN [node |-> n, advanced |-> FALSE]
    ELSE IF success
    THEN LET n1 == [n EXCEPT
                      !.next_index = [p \in DOMAIN n.next_index |->
                                         IF p = from THEN match_index_hint + 1 ELSE n.next_index[p]],
                      !.match_index = [p \in DOMAIN n.match_index |->
                                         IF p = from THEN match_index_hint ELSE n.match_index[p]]]
         IN  try_advance_commit_index(n1)
    ELSE [node |-> n, advanced |-> FALSE]

handle_append_entries_response(n, term, success, from, match_index_hint) ==
    IF term > n.current_term
    THEN [node |-> become_follower(n, term), advanced |-> FALSE]
    ELSE IF n.state # "Leader"
    THEN [node |-> n, advanced |-> FALSE]
    ELSE IF success
    THEN LET n1 == [n EXCEPT
                      !.next_index = [p \in DOMAIN n.next_index |->
                                         IF p = from THEN match_index_hint + 1 ELSE n.next_index[p]],
                      !.match_index = [p \in DOMAIN n.match_index |->
                                         IF p = from THEN match_index_hint ELSE n.match_index[p]]]
         IN  try_advance_commit_index(n1)
    ELSE [node |-> [n EXCEPT
                      !.next_index = [p \in DOMAIN n.next_index |->
                                         IF p = from /\ n.next_index[p] > 1
                                         THEN n.next_index[p] - 1 ELSE n.next_index[p]]],
          advanced |-> FALSE]

\* the loop "while self.last_applied < self.commit_index" of get_entries_to_apply
RECURSIVE apply_loop(_, _)
apply_loop(n, entries) ==
    IF n.last_applied < n.commit_index
    THEN LET n1 == [n EXCEPT !.last_applied = n.last_applied + 1]
             entry == get_entry(n1, n1.last_applied)
         IN  apply_loop(n1, IF entry # NoEntry THEN Append(entries, entry) ELSE entries)
    ELSE [node |-> n, entries |-> entries]

get_entries_to_apply(n) == apply_loop(n, <<>>)

\* ---------------------------------------------------------------------------
\* The cluster: three nodes and a transport that may reorder, repeat and drop.
\* ---------------------------------------------------------------------------

Peers(i) == {p \in Ids : p # i}

Send(ms) == msgs' = msgs \cup ms

Sent(mtype) == {m \in msgs : m.mtype = mtype}

\* no Storage is in use
NoStore == [impl |-> "none"]

\* no PreVote exchange is under way and no election timer has been reset
NoPreVote == [i \in Ids |-> [prevotes_received |-> <<>>, heard |-> FALSE, lapsed |-> FALSE]]

Init ==
    /\ nodes = [i \in Ids |-> new(i, cluster_nodes)]
    /\ msgs = {}
    /\ leaders = {}
    /\ granted = {}
    /\ committed = {}
    /\ applied = {}
    /\ prevote = NoPreVote
    /\ store = NoStore

\* election timeout on a node that is not leader: start_election, and the
\* VoteRequest it returns goes to every peer
Timeout(i, maxElections) ==
    /\ nodes[i].state # "Leader"
    /\ nodes[i].current_term < MaxTerm
    /\ Cardinality(Sent("VoteRequest")) < maxElections
    /\ LET r == start_election(nodes[i])
       IN  /\ nodes' = [nodes EXCEPT ![i] = r.node]
           /\ Send({r.msg})
    /\ UNCHANGED <<prevote, store, leaders, granted, committed, applied>>

\* a peer of the candidate receives its VoteRequest and replies
RecvVoteRequest(j, m) ==
    /\ m.mtype = "VoteRequest"
    /\ j # m.candidate_id
    /\ LET r == handle_vote_request(nodes[j], m.term, m.candidate_id,
                                    m.last_log_index, m.last_log_term)
       IN  /\ nodes' = [nodes EXCEPT ![j] = r.node]
           /\ Send({[mtype |-> "VoteResponse", from |-> j, to |-> m.candidate_id,
                     term |-> r.term, vote_granted |-> r.vote_granted]})
           /\ granted' = IF r.vote_granted
                         THEN granted \cup {<<j, r.term, m.candidate_id>>}
                         ELSE granted
    /\ UNCHANGED <<prevote, store, leaders, committed, applied>>

RecvVoteResponse(i, m) ==
    /\ m.mtype = "VoteResponse"
    /\ m.to = i
    /\ LET r == handle_vote_response(nodes[i], m.term, m.vote_granted, m.from)
       IN  /\ nodes' = [nodes EXCEPT ![i] = r.node]
           /\ leaders' = IF r.became_leader
                         THEN leaders \cup {<<r.node.current_term, i>>}
                         ELSE leaders
    /\ UNCHANGED <<prevote, store, msgs, granted, committed, applied>>

\* a client proposal on the leader
ClientRequest(i, command) ==
    /\ command = i
    /\ nodes[i].state = "Leader"
    /\ Len(nodes[i].log) < MaxLogLen
    /\ nodes' = [nodes EXCEPT ![i] = append_entry(nodes[i], command)]
    /\ UNCHANGED <<prevote, store, msgs, leaders, granted, committed, applied>>

\* the leader builds the AppendEntries for one follower
SendAppendEntries(i, j, maxAppendEntries) ==
    /\ j # i
    /\ Cardinality(Sent("AppendEntries")) < maxAppendEntries
    /\ LET m == create_append_entries(nodes[i], j)
       IN  /\ m # NoMessage
           /\ Send({[mtype |-> "AppendEntries", from |-> i, to |-> {j},
                     term |-> m.term, leader_id |-> m.leader_id,
                     prev_log_index |-> m.prev_log_index,
                     prev_log_term |-> m.prev_log_term,
                     entries |-> m.entries, leader_commit |-> m.leader_commit]})
    /\ UNCHANGED <<prevote, store, nodes, leaders, granted, committed, applied>>

\* the leader's heartbeat goes to every peer
SendHeartbeat(i, maxAppendEntries) ==
    /\ Cardinality(Sent("AppendEntries")) < maxAppendEntries
    /\ LET m == create_heartbeat(nodes[i])
       IN  /\ m # NoMessage
           /\ Send({[mtype |-> "AppendEntries", from |-> i, to |-> Peers(i),
                     term |-> m.term, leader_id |-> m.leader_id,
                     prev_log_index |-> m.prev_log_index,
                     prev_log_term |-> m.prev_log_term,
                     entries |-> m.entries, leader_commit |-> m.leader_commit]})
    /\ UNCHANGED <<prevote, store, nodes, leaders, granted, committed, applied>>

\* AppendEntriesResponse has no hint field (message.rs): the caller of
\* handle_append_entries_response passes it.  The calls of the core's tests
\* pass the index of the last entry sent to the peer (comprehensive_tests.rs,
\* success_response_updates_match_index), which is prev_log_index plus the
\* number of entries of the message that is answered.
RecvAppendEntries(j, m) ==
    /\ m.mtype = "AppendEntries"
    /\ j \in m.to
    /\ LET r == handle_append_entries(nodes[j], m.term, m.leader_id, m.prev_log_index,
                                      m.prev_log_term, m.entries, m.leader_commit)
       IN  /\ nodes' = [nodes EXCEPT ![j] = r.node]
           /\ Send({[mtype |-> "AppendEntriesResponse", from |-> j, to |-> m.from,
                     term |-> r.term, success |-> r.success,
                     match_index_hint |-> IF r.success
                                          THEN m.prev_log_index + Len(m.entries)
                                          ELSE 0]})
    /\ UNCHANGED <<prevote, store, leaders, granted, committed, applied>>

CoveredEntries(old, n) ==
    {<<n.current_term, get_entry(n, k)>> : k \in (old.commit_index + 1)..n.commit_index}

RecvAppendEntriesResponse(i, m) ==
    /\ m.mtype = "AppendEntriesResponse"
    /\ m.to = i
    /\ LET r == handle_append_entries_response(nodes[i], m.term, m.success, m.from,
                                               m.match_index_hint)
       IN  /\ nodes' = [nodes EXCEPT ![i] = r.node]
           /\ committed' = committed \cup CoveredEntries(nodes[i], r.node)
    /\ UNCHANGED <<prevote, store, msgs, leaders, granted, applied>>

\* the host drains the committed entries
Apply(i) ==
    /\ nodes[i].last_applied < nodes[i].commit_index
    /\ LET r == get_entries_to_apply(nodes[i])
       IN  /\ nodes' = [nodes EXCEPT ![i] = r.node]
           /\ applied' = applied \cup {r.entries[k] : k \in DOMAIN r.entries}
    /\ UNCHANGED <<prevote, store, msgs, leaders, granted, committed>>

Next ==
    \/ \E i \in Ids : Timeout(i, MaxElections)
    \/ \E j \in Ids, m \in msgs : RecvVoteRequest(j, m)
    \/ \E i \in Ids, m \in msgs : RecvVoteResponse(i, m)
    \/ \E i \in Ids, command \in Commands : ClientRequest(i, command)
    \/ \E i \in Ids, j \in Ids : SendAppendEntries(i, j, MaxAppendEntries)
    \/ \E i \in Ids : SendHeartbeat(i, MaxAppendEntries)
    \/ \E j \in Ids, m \in msgs : RecvAppendEntries(j, m)
    \/ \E i \in Ids, m \in msgs : RecvAppendEntriesResponse(i, m)
    \/ \E i \in Ids : Apply(i)

Spec == Init /\ [][Next]_vars

\* ---------------------------------------------------------------------------
\* The cluster continued from a state Spec reaches (DualReached below): nodes
\* 1 and 2 were both elected in term 1 with the vote of node 3.  The messages
\* sent on the way are lost, so the transport starts empty and the bounds
\* MoreElections and MoreAppendEntries count from here.
\* ---------------------------------------------------------------------------

DualNodes ==
    [i \in Ids |->
        IF i = 3
        THEN [new(3, cluster_nodes) EXCEPT !.current_term = 1, !.voted_for = 2]
        ELSE [new(i, cluster_nodes) EXCEPT !.current_term = 1, !.voted_for = i, !.state = "Leader",
                            !.next_index = [p \in Peers(i) |-> 1],
                            !.match_index = [p \in Peers(i) |-> 0]]]

DualInit ==
    /\ nodes = DualNodes
    /\ msgs = {}
    /\ leaders = {<<1, 1>>, <<1, 2>>}
    /\ granted = {<<3, 1, 1>>, <<3, 1, 2>>}
    /\ committed = {}
    /\ applied = {}
    /\ prevote = NoPreVote
    /\ store = NoStore

\* Spec reaches the nodes and the history DualSpec starts from
DualReached ==
    /\ nodes = DualNodes
    /\ leaders = {<<1, 1>>, <<1, 2>>}
    /\ granted = {<<3, 1, 1>>, <<3, 1, 2>>}
    /\ committed = {}
    /\ applied = {}

DualNext ==
    \/ \E i \in Ids : Timeout(i, MoreElections)
    \/ \E j \in Ids, m \in msgs : RecvVoteRequest(j, m)
    \/ \E i \in Ids, m \in msgs : RecvVoteResponse(i, m)
    \/ \E i \in Ids, command \in Commands : ClientRequest(i, command)
    \/ \E i \in Ids, j \in Ids : SendAppendEntries(i, j, MoreAppendEntries)
    \/ \E i \in Ids : SendHeartbeat(i, MoreAppendEntries)
    \/ \E j \in Ids, m \in msgs : RecvAppendEntries(j, m)
    \/ \E i \in Ids, m \in msgs : RecvAppendEntriesResponse(i, m)
    \/ \E i \in Ids : Apply(i)

DualSpec == DualInit /\ [][DualNext]_vars

\* ---------------------------------------------------------------------------
\* One node (node 1 of the cluster) whose handlers the host invokes in any
\* order, with message fields drawn from bounded sets.  The entries of an
\* AppendEntries are what a leader's create_append_entries builds from a log
\* without gaps: consecutive indices from prev_log_index + 1, terms that do
\* not decrease and do not exceed the message's term.
\* ---------------------------------------------------------------------------

Self == 1
Others == Peers(Self)
Terms == 0..NodeMaxTerm
Indices == 0..NodeMaxIndex

RECURSIVE EntrySeqs(_, _, _)
\* the entry sequences that start at index first, with terms in low..term
EntrySeqs(first, low, term) ==
    {<<>>} \cup
    (IF first > NodeMaxIndex
     THEN {}
     ELSE UNION { { <<LogEntry(t, first, 1)>> \o rest : rest \in EntrySeqs(first + 1, t, term) }
                  : t \in low..term })

NodeStep(n) ==
    /\ nodes' = [nodes EXCEPT ![Self] = n]
    /\ UNCHANGED <<prevote, store, msgs, leaders, granted, committed, applied>>

NStartElection ==
    /\ nodes[Self].current_term < NodeMaxTerm
    /\ NodeStep(start_election(nodes[Self]).node)

NVoteRequest(term, candidate_id, last_log_index_, last_log_term_) ==
    NodeStep(handle_vote_request(nodes[Self], term, candidate_id,
                                 last_log_index_, last_log_term_).node)

NVoteResponse(term, vote_granted, from) ==
    NodeStep(handle_vote_response(nodes[Self], term, vote_granted, from).node)

NAppendEntries(term, leader_id, prev_log_index, prev_log_term, entries, leader_commit) ==
    NodeStep(handle_append_entries(nodes[Self], term, leader_id, prev_log_index,
                                      prev_log_term, entries, leader_commit).node)

NAppendEntriesResponse(term, success, from, match_index_hint) ==
    NodeStep(handle_append_entries_response(nodes[Self], term, success, from,
                                               match_index_hint).node)

\* the host accepts a command only on the leader
NAppendEntry(command) ==
    /\ nodes[Self].state = "Leader"
    /\ last_log_index(nodes[Self]) < NodeMaxIndex
    /\ NodeStep(append_entry(nodes[Self], command))

NApply ==
    NodeStep(get_entries_to_apply(nodes[Self]).node)

NodeNext ==
    \/ NStartElection
    \/ \E term \in Terms, c \in Others, i \in Indices, t \in Terms :
          /\ (i = 0) = (t = 0)
          /\ NVoteRequest(term, c, i, t)
    \/ \E term \in Terms, g \in BOOLEAN, from \in Others :
          NVoteResponse(term, g, from)
    \/ \E term \in Terms, prev \in Indices, pt \in Terms, lc \in 0..(NodeMaxIndex + 1) :
          \E entries \in EntrySeqs(prev + 1, 1, term) :
             /\ prev = 0 => pt = 0
             /\ NAppendEntries(term, 2, prev, pt, entries, lc)
    \/ \E term \in Terms, ok \in BOOLEAN, from \in Others, hint \in Indices :
          NAppendEntriesResponse(term, ok, from, hint)
    \/ NAppendEntry(1)
    \/ NApply

NodeSpec == Init /\ [][NodeNext]_vars

\* ---------------------------------------------------------------------------
\* One candidate of a five-node cluster (RaftNode::new(1, vec![1, 2, 3, 4, 5])):
\* quorum_size is 3, so one peer's vote is not enough.  granted records the
\* granted VoteResponses of the node's current term it was handed, leaders the
\* terms in which handle_vote_response returned true.
\* ---------------------------------------------------------------------------

five_nodes == <<1, 2, 3, 4, 5>>
Voters == {five_nodes[k] : k \in DOMAIN five_nodes} \ {Self}

VoteInit ==
    /\ nodes = [i \in Ids |-> new(i, five_nodes)]
    /\ msgs = {}
    /\ leaders = {}
    /\ granted = {}
    /\ committed = {}
    /\ applied = {}
    /\ prevote = NoPreVote
    /\ store = NoStore

VStartElection ==
    /\ nodes[Self].current_term < NodeMaxTerm
    /\ NodeStep(start_election(nodes[Self]).node)

VVoteResponse(term, vote_granted, from) ==
    LET r == handle_vote_response(nodes[Self], term, vote_granted, from)
    IN  /\ nodes' = [nodes EXCEPT ![Self] = r.node]
        /\ granted' = IF vote_granted /\ term = nodes[Self].current_term
                      THEN granted \cup {<<from, term, Self>>}
                      ELSE granted
        /\ leaders' = IF r.became_leader
                      THEN leaders \cup {<<r.node.current_term, Self>>}
                      ELSE leaders
        /\ UNCHANGED <<prevote, store, msgs, committed, applied>>

\* a heartbeat of a leader of the cluster makes the candidate step down
VHeartbeat(term, leader_id) ==
    NodeStep(handle_append_entries(nodes[Self], term, leader_id, 0, 0, <<>>, 0).node)

VoteNext ==
    \/ VStartElection
    \/ \E term \in Terms, g \in BOOLEAN, from \in Voters : VVoteResponse(term, g, from)
    \/ \E term \in Terms, leader_id \in Voters : VHeartbeat(term, leader_id)

VoteSpec == VoteInit /\ [][VoteNext]_vars

\* ---------------------------------------------------------------------------
\* The claims
\* ---------------------------------------------------------------------------

IsPrefix(a, b) == Len(a) <= Len(b) /\ \A k \in DOMAIN a : a[k] = b[k]

LogIndices == 1..(MaxLogLen + NodeMaxIndex)

\* C1 Election Safety: no two nodes have ever become Leader for the same term.
ElectionSafety ==
    \A a \in leaders, b \in leaders : a[1] = b[1] => a[2] = b[2]

\* C2 Vote uniqueness: the votes a node has granted in one term all went to
\* one candidate.
VoteUniqueness ==
    \A a \in granted, b \in granted : (a[1] = b[1] /\ a[2] = b[2]) => a[3] = b[3]

\* C3 Term monotonicity: no handler invocation lowers current_term.
TermMonotonic ==
    [][nodes'[Self].current_term >= nodes[Self].current_term]_vars

\* C3 witness: the node has been through start_election, handle_vote_response
\* and the term-raising handlers up to the largest term, where every message
\* of a lower term is stale.
TermRaisedToMax ==
    /\ nodes[Self].current_term = NodeMaxTerm
    /\ nodes[Self].state = "Leader"
    /\ nodes[Self].commit_index > 0

\* C4 Log Matching: two logs that hold an entry of the same term at index k
\* hold identical entries at every index up to k.
LogMatching ==
    \A i \in Ids, j \in Ids : \A k \in LogIndices :
        LET a == get_entry(nodes[i], k)
            b == get_entry(nodes[j], k)
        IN  (a # NoEntry /\ b # NoEntry /\ a.term = b.term)
            => \A k2 \in 1..k : get_entry(nodes[i], k2) = get_entry(nodes[j], k2)

\* C5 Leader Completeness: an entry covered by the commit_index of a leader of
\* term T is in the log of every Leader of a term greater than T.
LeaderCompleteness ==
    \A c \in committed : \A i \in Ids :
        (nodes[i].state = "Leader" /\ nodes[i].current_term > c[1])
        => get_entry(nodes[i], c[2].index) = c[2]

\* C6 State Machine Safety: the entries get_entries_to_apply has yielded for
\* one index, on whatever node, are one and the same entry.
StateMachineSafety ==
    \A a \in applied, b \in applied : a.index = b.index => a = b

\* C7 No commit of previous-term entries by count alone: when a Leader raises
\* its commit_index, the entry at the new commit_index is of its current term
\* and is matched by a majority.
NoCommitOfPreviousTerm ==
    [][ ( /\ nodes[Self].state = "Leader"
          /\ nodes'[Self].state = "Leader"
          /\ nodes'[Self].commit_index > nodes[Self].commit_index )
        => LET n == nodes'[Self]
           IN  /\ get_term_at(n, n.commit_index) = n.current_term
               /\ 1 + Cardinality({p \in DOMAIN n.match_index :
                                      p # n.id /\ n.match_index[p] >= n.commit_index})
                  >= quorum_size(n) ]_vars

\* C7 witness: a Leader of term 2 whose entry of term 1 is matched by both
\* peers and whose own entry of term 2 by none: commit_index is still 0.
OldEntryOnMajorityUncommitted ==
    LET n == nodes[Self]
    IN  /\ n.state = "Leader"
        /\ n.current_term = 2
        /\ Len(n.log) = 2
        /\ n.log[1].term = 1
        /\ n.log[2].term = 2
        /\ \A p \in Others : n.match_index[p] = 1
        /\ n.commit_index = 0

\* C8 Commit monotonicity: no handler invocation lowers commit_index or
\* last_applied.
CommitMonotonic ==
    [][ /\ nodes'[Self].commit_index >= nodes[Self].commit_index
        /\ nodes'[Self].last_applied >= nodes[Self].last_applied ]_vars

\* C9 last_applied <= commit_index <= last_log_index() in every state.
CommitWithinLog ==
    /\ nodes[Self].last_applied <= nodes[Self].commit_index
    /\ nodes[Self].commit_index <= last_log_index(nodes[Self])

\* C10 Leader Append-Only: a step that starts on a Leader and leaves
\* current_term unchanged keeps the old log as a prefix of the new one.
LeaderAppendOnly ==
    [][ ( /\ nodes[Self].state = "Leader"
          /\ nodes'[Self].current_term = nodes[Self].current_term )
        => IsPrefix(nodes[Self].log, nodes'[Self].log) ]_vars

\* the distinct nodes whose granted vote of the term the candidate was handed,
\* its own vote included
VotersOf(term) == {g[1] : g \in {h \in granted : h[2] = term}} \cup {Self}

\* C11 A node has become Leader of a term only with the granted votes of that
\* term of a majority of distinct nodes (its own included); a peer counts once
\* however often its VoteResponse arrives.
MajorityToLead ==
    \A l \in leaders : Cardinality(VotersOf(l[1])) >= quorum_size(nodes[Self])

\* C11 witness: in term 1 the candidate was handed granted votes of one peer
\* only and did not become Leader; in term 2 it became Leader.
OnePeerIsNotEnough ==
    /\ Cardinality(VotersOf(1)) = 2
    /\ <<1, Self>> \notin leaders
    /\ <<2, Self>> \in leaders
    /\ nodes[Self].state = "Leader"

\* the nodes whose log holds, after the step, the entry the log of i holds at
\* index k: same term, index and command
Holders(i, k) == {j \in Ids : get_entry(nodes'[j], k) = get_entry(nodes'[i], k)}

\* C12 Commit safety under reordering, duplication and loss: in a step in
\* which a Leader raises its commit_index to N, the entry at index N of its log
\* is in the logs of at least a quorum of nodes.
CommitOnQuorum ==
    [][ \A i \in Ids :
          ( /\ nodes[i].state = "Leader"
            /\ nodes'[i].state = "Leader"
            /\ nodes'[i].commit_index > nodes[i].commit_index )
          => Cardinality(Holders(i, nodes'[i].commit_index)) >= quorum_size(nodes[i]) ]_vars

\* C13 Idempotence of AppendEntries: in every state of the node and for every
\* AppendEntries it can be handed, handling the message and then the same
\* message once more leaves log and commit_index as the first handling left
\* them, and the second reply is a success if the first was.
AppendEntriesIdempotent ==
    \A term \in Terms, prev \in Indices, pt \in Terms, lc \in 0..(NodeMaxIndex + 1) :
       \A entries \in EntrySeqs(prev + 1, 1, term) :
          (prev = 0 => pt = 0)
          => LET first == handle_append_entries(nodes[Self], term, 2, prev, pt, entries, lc)
                 again == handle_append_entries(first.node, term, 2, prev, pt, entries, lc)
             IN  /\ again.node.log = first.node.log
                 /\ again.node.commit_index = first.node.commit_index
                 /\ first.success => again.success

\* C13 witness: the node holds what the delivery of AppendEntries{term 2,
\* prev 0, entries of terms 1 and 2, leader_commit 2} leaves, and a further
\* delivery of that message succeeds.
DeliveredOnce ==
    LET n == nodes[Self]
    IN  /\ n.state = "Follower"
        /\ n.current_term = 2
        /\ n.log = <<LogEntry(1, 1, 1), LogEntry(2, 2, 1)>>
        /\ n.commit_index = 2
        /\ handle_append_entries(n, 2, 2, 0, 0, n.log, 2).success

\* ---------------------------------------------------------------------------
\* PreVote.  raft-wasm dispatches PreVoteRequest and PreVoteResponse to
\* handle_prevote_request and handle_prevote_response of RaftNode and maps a
\* state PreCandidate; node.rs has neither.  The three operators below follow
\* section 4.3 of the specification.  What they keep per node is in prevote:
\*   prevotes_received  the grants of the PreVote round under way,
\*   heard              a valid leader was heard within the last election
\*                      timeout (the election timer was reset and has not
\*                      run out since),
\*   lapsed             history: the node's election timer ran out at least
\*                      once since the initial state.
\* ---------------------------------------------------------------------------

\* the election timer fired: PreCandidate, PreVoteRequest{current_term + 1};
\* current_term, voted_for untouched
start_prevote(n, pv) ==
    [ node |-> [n EXCEPT !.state = "PreCandidate"],
      pv   |-> [pv EXCEPT !.prevotes_received = <<n.id>>],
      msg  |-> [ mtype |-> "PreVoteRequest",
                 term |-> n.current_term + 1,
                 candidate_id |-> n.id,
                 last_log_index |-> last_log_index(n),
                 last_log_term |-> last_log_term(n) ] ]

\* handle_prevote_request that grants without looking at the leader contact
handle_prevote_request_without_leader_check(n, pv, term, candidate_id, last_log_index_, last_log_term_) ==
    [ node |-> n, pv |-> pv, term |-> n.current_term,
      vote_granted |-> /\ term >= n.current_term
                       /\ is_log_up_to_date(n, last_log_index_, last_log_term_),
      reset |-> FALSE ]

\* grant iff (a) the hypothetical term is not behind, (b) the candidate's log
\* is up to date, (c) no valid leader was heard within the last election
\* timeout (a leader is in contact with itself); nothing of the node changes
handle_prevote_request(n, pv, term, candidate_id, last_log_index_, last_log_term_) ==
    [ node |-> n, pv |-> pv, term |-> n.current_term,
      vote_granted |-> /\ term >= n.current_term
                       /\ is_log_up_to_date(n, last_log_index_, last_log_term_)
                       /\ ~pv.heard
                       /\ n.state # "Leader",
      reset |-> FALSE ]

\* handle_prevote_response that adopts a higher term as handle_vote_response does
handle_prevote_response_adopting_term(n, pv, term, vote_granted, from) ==
    IF n.state # "PreCandidate"
    THEN [node |-> n, pv |-> pv, should_start_election |-> FALSE]
    ELSE IF term > n.current_term
    THEN [node |-> become_follower(n, term),
          pv |-> [pv EXCEPT !.prevotes_received = <<>>],
          should_start_election |-> FALSE]
    ELSE IF vote_granted /\ ~Contains(pv.prevotes_received, from)
    THEN LET pv1 == [pv EXCEPT !.prevotes_received = Append(pv.prevotes_received, from)]
         IN  [node |-> n, pv |-> pv1,
              should_start_election |-> Len(pv1.prevotes_received) >= quorum_size(n)]
    ELSE [node |-> n, pv |-> pv, should_start_election |-> FALSE]

\* a response with a higher term is advisory: back to Follower, the term is
\* not adopted; a grant is counted once per peer; a quorum of grants (the own
\* one included) tells the caller to start the election
handle_prevote_response(n, pv, term, vote_granted, from) ==
    IF n.state # "PreCandidate"
    THEN [node |-> n, pv |-> pv, should_start_election |-> FALSE]
    ELSE IF term > n.current_term
    THEN [node |-> [n EXCEPT !.state = "Follower"],
          pv |-> [pv EXCEPT !.prevotes_received = <<>>],
          should_start_election |-> FALSE]
    ELSE IF vote_granted /\ ~Contains(pv.prevotes_received, from)
    THEN LET pv1 == [pv EXCEPT !.prevotes_received = Append(pv.prevotes_received, from)]
         IN  [node |-> n, pv |-> pv1,
              should_start_election |-> Len(pv1.prevotes_received) >= quorum_size(n)]
    ELSE [node |-> n, pv |-> pv, should_start_election |-> FALSE]

\* A stable cluster of term 1: node 1 was elected with the votes of 2 and 3,
\* node 2 has handled its first heartbeat, node 3 was cut off after voting.
PreVoteNodes ==
    [i \in Ids |->
        CASE i = 1 -> handle_vote_response(start_election(new(1, cluster_nodes)).node,
                                           1, TRUE, 2).node
          [] i = 2 -> handle_append_entries(
                         handle_vote_request(new(2, cluster_nodes), 1, 1, 0, 0).node,
                         1, 1, 0, 0, <<>>, 0).node
          [] OTHER -> handle_vote_request(new(3, cluster_nodes), 1, 1, 0, 0).node]

PreVoteInit ==
    /\ nodes = PreVoteNodes
    /\ msgs = {}
    /\ leaders = {<<1, 1>>}
    /\ granted = {<<2, 1, 1>>, <<3, 1, 1>>}
    /\ committed = {}
    /\ applied = {}
    /\ prevote = [i \in Ids |-> [prevotes_received |-> <<>>,
                                 heard |-> i # 3,
                                 lapsed |-> i = 3]]
    /\ store = NoStore

\* Spec reaches the nodes PreVoteSpec starts from
PreVoteReached ==
    /\ nodes = PreVoteNodes
    /\ leaders = {<<1, 1>>}
    /\ granted = {<<2, 1, 1>>, <<3, 1, 1>>}

\* an election timeout passes on node i without a message that resets its timer
Elapse(i) ==
    /\ nodes[i].state # "Leader"
    /\ prevote[i].heard
    /\ prevote' = [prevote EXCEPT ![i].heard = FALSE, ![i].lapsed = TRUE]
    /\ UNCHANGED <<store, nodes, msgs, leaders, granted, committed, applied>>

\* the election timer of node i fires: the PreVoteRequest goes to every peer
PreVoteTimeout(i) ==
    /\ nodes[i].state # "Leader"
    /\ ~prevote[i].heard
    /\ nodes[i].current_term < MaxTerm
    /\ LET r == start_prevote(nodes[i], prevote[i])
       IN  /\ nodes' = [nodes EXCEPT ![i] = r.node]
           /\ prevote' = [prevote EXCEPT ![i] = r.pv]
           /\ Send({r.msg})
    /\ UNCHANGED <<store, leaders, granted, committed, applied>>

RecvPreVoteRequest(j, m) ==
    /\ m.mtype = "PreVoteRequest"
    /\ j # m.candidate_id
    /\ Cardinality(Sent("PreVoteResponse")) < MaxPreVoteResponses
    /\ LET r == handle_prevote_request(nodes[j], prevote[j], m.term, m.candidate_id,
                                       m.last_log_index, m.last_log_term)
       IN  /\ nodes' = [nodes EXCEPT ![j] = r.node]
           /\ prevote' = [prevote EXCEPT ![j] = r.pv]
           /\ Send({[mtype |-> "PreVoteResponse", from |-> j, to |-> m.candidate_id,
                     term |-> r.term, vote_granted |-> r.vote_granted]})
    /\ UNCHANGED <<store, leaders, granted, committed, applied>>

RecvPreVoteResponse(i, m) ==
    /\ m.mtype = "PreVoteResponse"
    /\ m.to = i
    /\ LET r == handle_prevote_response(nodes[i], prevote[i], m.term, m.vote_granted, m.from)
       IN  /\ nodes' = [nodes EXCEPT ![i] = r.node]
           /\ prevote' = [prevote EXCEPT ![i] = r.pv]
    /\ UNCHANGED <<store, msgs, leaders, granted, committed, applied>>

\* the caller of handle_prevote_response was told to start the election
PreVoteWon(i) ==
    /\ nodes[i].state = "PreCandidate"
    /\ Len(prevote[i].prevotes_received) >= quorum_size(nodes[i])
    /\ Cardinality(Sent("VoteRequest")) < MoreElections
    /\ LET r == start_election(nodes[i])
       IN  /\ nodes' = [nodes EXCEPT ![i] = r.node]
           /\ Send({r.msg})
    /\ UNCHANGED <<prevote, store, leaders, granted, committed, applied>>

\* on_message of raft-wasm for an AppendEntries: the handler runs, its
\* response goes nowhere; the election timer is reset when the handler says so
RecvHeartbeat(j, m) ==
    /\ m.mtype = "AppendEntries"
    /\ j \in m.to
    /\ LET r == handle_append_entries(nodes[j], m.term, m.leader_id, m.prev_log_index,
                                      m.prev_log_term, m.entries, m.leader_commit)
       IN  /\ nodes' = [nodes EXCEPT ![j] = r.node]
           /\ prevote' = [prevote EXCEPT ![j].heard = r.reset \/ prevote[j].heard]
    /\ UNCHANGED <<store, msgs, leaders, granted, committed, applied>>

PreVoteNext ==
    \/ \E i \in Ids : Elapse(i)
    \/ \E i \in Ids : PreVoteTimeout(i)
    \/ \E j \in Ids, m \in msgs : RecvPreVoteRequest(j, m)
    \/ \E i \in Ids, m \in msgs : RecvPreVoteResponse(i, m)
    \/ \E i \in Ids : PreVoteWon(i)
    \/ \E j \in Ids, m \in msgs : RecvVoteRequest(j, m)
    \/ \E i \in Ids, m \in msgs : RecvVoteResponse(i, m)
    \/ \E i \in Ids : SendHeartbeat(i, MaxAppendEntries)
    \/ \E j \in Ids, m \in msgs : RecvHeartbeat(j, m)

PreVoteSpec == PreVoteInit /\ [][PreVoteNext]_vars

\* C14 PreVote traffic never changes terms: a step in which node i handles a
\* PreVoteRequest or a PreVoteResponse (whatever its term) leaves current_term
\* and voted_for of node i as they were, and a step in which node i sends its
\* PreVoteRequest leaves its current_term as it was and does not make it
\* Candidate.
PreVoteKeepsTerms ==
    [][ \A i \in Ids :
          /\ (\E m \in msgs : RecvPreVoteRequest(i, m) \/ RecvPreVoteResponse(i, m))
             => /\ nodes'[i].current_term = nodes[i].current_term
                /\ nodes'[i].voted_for = nodes[i].voted_for
          /\ PreVoteTimeout(i)
             => /\ nodes'[i].current_term = nodes[i].current_term
                /\ nodes'[i].state # "Candidate" ]_vars

\* C14 witness: node 3, still in term 1 with its vote of term 1, is back to
\* Follower with its grants dropped after its PreVoteRequest was answered from
\* term 2.
AdvisoryTermNotAdopted ==
    /\ \E m \in Sent("PreVoteResponse") : m.to = 3 /\ m.term = 2
    /\ \E m \in Sent("PreVoteRequest") : m.candidate_id = 3
    /\ nodes[3].state = "Follower"
    /\ prevote[3].prevotes_received = <<>>
    /\ nodes[3].current_term = 1
    /\ nodes[3].voted_for = 1

RoleMisuseKeepsState ==
    nodes[Self].state # "Leader"
    => /\ \A command \in Commands : append_entry(nodes[Self], command) = nodes[Self]
       /\ \A follower_id \in Others : create_append_entries(nodes[Self], follower_id) = NoMessage
       /\ create_heartbeat(nodes[Self]) = NoMessage

\* ---------------------------------------------------------------------------
\* Crash and restart.  The node lives in the NODE cell of the raft-wasm
\* component; no handler of RaftNode and no branch of on_message calls a
\* Storage, and init builds the node with RaftNode::with_config and loads
\* nothing.  A node that comes back after a crash is therefore the node that
\* init builds.
\* ---------------------------------------------------------------------------

Restart(i) ==
    /\ nodes[i] # new(i, cluster_nodes)
    /\ nodes' = [nodes EXCEPT ![i] = new(i, cluster_nodes)]
    /\ UNCHANGED <<prevote, store, msgs, leaders, granted, committed, applied>>

RestartNext ==
    \/ \E i \in Ids : Timeout(i, MaxElections)
    \/ \E j \in Ids, m \in msgs : RecvVoteRequest(j, m)
    \/ \E i \in Ids, m \in msgs : RecvVoteResponse(i, m)
    \/ \E i \in Ids : Restart(i)

RestartSpec == Init /\ [][RestartNext]_vars

\* C17 Persist before reply: a node that granted a vote in term T is in a
\* term >= T ever after, crash and restart included (the term it persisted
\* before the VoteResponse left is the least it can come back with).
VoteSurvivesRestart ==
    \A g \in granted : nodes[g[1]].current_term >= g[2]

\* ---------------------------------------------------------------------------
\* raft-storage (crates/raft-storage/src/lib.rs): the Storage trait and its
\* two implementations.  InMemoryStorage is its three fields.  FileStorage is
\* a directory, modelled as a map from file name to the file (whether it
\* exists, and its text).  A JSON text is the sequence of its tokens; reading
\* one back succeeds only on a complete, well-formed sequence.  The three
\* writing methods of FileStorage run as the steps File::create, write_all,
\* sync_all, fs::rename, and the process may crash between any two of them.
\* ---------------------------------------------------------------------------

Tok(t) == [t |-> t, v |-> 0]
Num(v) == [t |-> "num", v |-> v]

\* serde_json::to_string_pretty(&MetaData { term, voted_for })
meta_to_string_pretty(term, voted_for) ==
    << Tok("{"), Num(term), IF voted_for = None THEN Tok("null") ELSE Num(voted_for), Tok("}") >>

\* serde_json::from_str::<MetaData>
meta_from_str(text) ==
    IF /\ Len(text) = 4
       /\ text[1] = Tok("{")
       /\ text[2].t = "num"
       /\ text[3].t \in {"num", "null"}
       /\ text[4] = Tok("}")
    THEN [ok |-> TRUE, term |-> text[2].v,
          voted_for |-> IF text[3].t = "null" THEN None ELSE text[3].v]
    ELSE [ok |-> FALSE, term |-> 0, voted_for |-> None]

RECURSIVE entries_to_string(_)
entries_to_string(log) ==
    IF log = <<>>
    THEN <<>>
    ELSE << Tok("{"), Num(Head(log).term), Num(Head(log).index), Num(Head(log).command), Tok("}") >>
         \o entries_to_string(Tail(log))

\* serde_json::to_string_pretty(&log) for a Vec<LogEntry>
log_to_string_pretty(log) == <<Tok("[")>> \o entries_to_string(log) \o <<Tok("]")>>

RECURSIVE entries_from_str(_)
\* the entries of a token sequence, or a failure on the first malformed one
entries_from_str(text) ==
    IF text = <<>>
    THEN [ok |-> TRUE, log |-> <<>>]
    ELSE IF /\ Len(text) >= 5
            /\ text[1] = Tok("{")
            /\ text[2].t = "num" /\ text[3].t = "num" /\ text[4].t = "num"
            /\ text[5] = Tok("}")
    THEN LET rest == entries_from_str(SubSeq(text, 6, Len(text)))
         IN  [ok |-> rest.ok,
              log |-> IF rest.ok
                      THEN <<LogEntry(text[2].v, text[3].v, text[4].v)>> \o rest.log
                      ELSE <<>>]
    ELSE [ok |-> FALSE, log |-> <<>>]

\* serde_json::from_str::<Vec<LogEntry>>
log_from_str(text) ==
    IF /\ Len(text) >= 2
       /\ text[1] = Tok("[")
       /\ text[Len(text)] = Tok("]")
    THEN entries_from_str(SubSeq(text, 2, Len(text) - 1))
    ELSE [ok |-> FALSE, log |-> <<>>]

FileNames == {"meta.json", "meta.tmp", "log.json", "log.tmp"}
NoFile == [exists |-> FALSE, text |-> <<>>]

meta_path == "meta.json"
log_path == "log.json"

\* the temporary file written in place of the target itself
temp_path_in_place(path) == path

\* self.dir.join("meta.tmp") and self.dir.join("log.tmp")
temp_path(path) == IF path = meta_path THEN "meta.tmp" ELSE "log.tmp"

FileStorage_load_term_and_vote(files) ==
    IF ~files[meta_path].exists
    THEN [ok |-> TRUE, term |-> 0, voted_for |-> None]
    ELSE meta_from_str(files[meta_path].text)

FileStorage_load_log(files) ==
    IF ~files[log_path].exists
    THEN [ok |-> TRUE, log |-> <<>>]
    ELSE log_from_str(files[log_path].text)

\* clear that removes meta.json only
FileStorage_clear_meta_only(files) ==
    [files EXCEPT ![meta_path] = NoFile]

\* the two remove_file calls; the temporary files are not touched
FileStorage_clear(files) ==
    [files EXCEPT ![meta_path] = NoFile, ![log_path] = NoFile]

\* fs::rename: the target is replaced by the source in one step
rename(files, from, to) ==
    IF from = to
    THEN files
    ELSE [files EXCEPT ![to] = files[from], ![from] = NoFile]

InMemoryStorage_new == [term |-> 0, voted_for |-> None, log |-> <<>>]

InMemoryStorage_save_term_and_vote(mem, term, voted_for) ==
    [mem EXCEPT !.term = term, !.voted_for = voted_for]

InMemoryStorage_load_term_and_vote(mem) ==
    [ok |-> TRUE, term |-> mem.term, voted_for |-> mem.voted_for]

InMemoryStorage_append_entries(mem, entries) ==
    [mem EXCEPT !.log = mem.log \o entries]

InMemoryStorage_load_log(mem) == [ok |-> TRUE, log |-> mem.log]

InMemoryStorage_truncate_log_from(mem, from_index) ==
    [mem EXCEPT !.log = SelectSeq(mem.log, LAMBDA e : e.index < from_index)]

InMemoryStorage_clear(mem) ==
    [mem EXCEPT !.term = 0, !.voted_for = None, !.log = <<>>]

\* Storage::load_term_and_vote and Storage::load_log of the implementation in use
load_term_and_vote(st) ==
    IF st.impl = "mem"
    THEN InMemoryStorage_load_term_and_vote(st.mem)
    ELSE FileStorage_load_term_and_vote(st.files)

load_log(st) ==
    IF st.impl = "mem"
    THEN InMemoryStorage_load_log(st.mem)
    ELSE FileStorage_load_log(st.files)

\* what the two loads return, as one value
Loaded(st) ==
    [ok |-> load_term_and_vote(st).ok /\ load_log(st).ok,
     term |-> load_term_and_vote(st).term,
     voted_for |-> load_term_and_vote(st).voted_for,
     log |-> load_log(st).log]

\* no method of FileStorage is under way
Idle == [step |-> "idle", path |-> "", json |-> <<>>, before |-> Loaded([impl |-> "mem", mem |-> InMemoryStorage_new]),
         after |-> Loaded([impl |-> "mem", mem |-> InMemoryStorage_new])]

\* history: the last call that returned, the log it found, and whether it is
\* an append_entries with the entries of the append_entries before it
Returned(kind, term, voted_for, entries, before_log, repeat) ==
    [kind |-> kind, term |-> term, voted_for |-> voted_for, entries |-> entries,
     before_log |-> before_log, repeat |-> repeat]

\* InMemoryStorage::new(), or FileStorage::new on a directory it creates
Storage_new(impl) ==
    [impl |-> impl,
     mem |-> InMemoryStorage_new,
     files |-> [f \in FileNames |-> NoFile],
     op |-> Idle,
     last |-> Returned("new", 0, None, <<>>, <<>>, FALSE)]

StoreTerms == 0..StoreMaxTerm
StoreVotes == {None, 1}
StoreEntries == { <<>>, <<LogEntry(1, 1, 1)>>, <<LogEntry(1, 2, 1)>>,
                  <<LogEntry(1, 1, 1), LogEntry(1, 2, 1)>> }
Prefixes(text) == {SubSeq(text, 1, k) : k \in 0..Len(text)}

StorageInit ==
    /\ nodes = [i \in Ids |-> new(i, cluster_nodes)]
    /\ msgs = {}
    /\ leaders = {}
    /\ granted = {}
    /\ committed = {}
    /\ applied = {}
    /\ prevote = NoPreVote
    /\ store \in {Storage_new("mem"), Storage_new("file")}

StoreStep(st) ==
    /\ store' = st
    /\ UNCHANGED <<nodes, msgs, leaders, granted, committed, applied, prevote>>

\* whether append_entries(entries) repeats the call that returned last
Repeats(entries) == store.last.kind = "append" /\ store.last.entries = entries

MemSave(term, voted_for) ==
    /\ store.impl = "mem"
    /\ StoreStep([store EXCEPT
          !.mem = InMemoryStorage_save_term_and_vote(store.mem, term, voted_for),
          !.last = Returned("save", term, voted_for, <<>>, store.mem.log, FALSE)])

MemAppend(entries) ==
    /\ store.impl = "mem"
    /\ Len(store.mem.log) + Len(entries) <= StoreMaxLog
    /\ StoreStep([store EXCEPT
          !.mem = InMemoryStorage_append_entries(store.mem, entries),
          !.last = Returned("append", 0, None, entries, store.mem.log, Repeats(entries))])

MemTruncate(from_index) ==
    /\ store.impl = "mem"
    /\ StoreStep([store EXCEPT
          !.mem = InMemoryStorage_truncate_log_from(store.mem, from_index),
          !.last = Returned("truncate", 0, None, <<>>, store.mem.log, FALSE)])

MemClear ==
    /\ store.impl = "mem"
    /\ StoreStep([store EXCEPT
          !.mem = InMemoryStorage_clear(store.mem),
          !.last = Returned("clear", 0, None, <<>>, store.mem.log, FALSE)])

\* a method of FileStorage can be called: none is under way
Callable == store.impl = "file" /\ store.op.step \in {"idle", "crashed"}

\* lines up to and including File::create(&temp_path) of the three writing
\* methods: the text to write is built and the temporary file is created empty
Create(path, json, after, last) ==
    StoreStep([store EXCEPT
       !.files[temp_path(path)] = [exists |-> TRUE, text |-> <<>>],
       !.op = [step |-> "created", path |-> path, json |-> json,
               before |-> Loaded(store), after |-> after, last |-> last]])

FileSaveCreate(term, voted_for) ==
    /\ Callable
    /\ Loaded(store).ok
    /\ Create(meta_path, meta_to_string_pretty(term, voted_for),
              [Loaded(store) EXCEPT !.term = term, !.voted_for = voted_for],
              Returned("save", term, voted_for, <<>>, Loaded(store).log, FALSE))

\* append_entries(&[]) returns at once
FileAppendNothing ==
    /\ Callable
    /\ StoreStep([store EXCEPT
          !.op = Idle,
          !.last = Returned("append", 0, None, <<>>, load_log(store).log, Repeats(<<>>))])

FileAppendCreate(entries) ==
    /\ Callable
    /\ entries # <<>>
    /\ Loaded(store).ok
    /\ Len(load_log(store).log) + Len(entries) <= StoreMaxLog
    /\ Create(log_path, log_to_string_pretty(load_log(store).log \o entries),
              [Loaded(store) EXCEPT !.log = load_log(store).log \o entries],
              Returned("append", 0, None, entries, load_log(store).log, Repeats(entries)))

FileTruncateCreate(from_index) ==
    /\ Callable
    /\ Loaded(store).ok
    /\ LET log == SelectSeq(load_log(store).log, LAMBDA e : e.index < from_index)
       IN  Create(log_path, log_to_string_pretty(log),
                  [Loaded(store) EXCEPT !.log = log],
                  Returned("truncate", 0, None, <<>>, load_log(store).log, FALSE))

\* file.write_all(json.as_bytes())
WriteAll ==
    /\ store.impl = "file"
    /\ store.op.step = "created"
    /\ StoreStep([store EXCEPT
          !.files[temp_path(store.op.path)].text = store.op.json,
          !.op.step = "written"])

\* file.sync_all()
SyncAll ==
    /\ store.impl = "file"
    /\ store.op.step = "written"
    /\ StoreStep([store EXCEPT !.op.step = "synced"])

\* fs::rename(&temp_path, target) and Ok(())
Rename ==
    /\ store.impl = "file"
    /\ store.op.step = "synced"
    /\ StoreStep([store EXCEPT
          !.files = rename(store.files, temp_path(store.op.path), store.op.path),
          !.op = Idle,
          !.last = store.op.last])

FileClear ==
    /\ Callable
    /\ StoreStep([store EXCEPT
          !.files = FileStorage_clear(store.files),
          !.op = Idle,
          !.last = Returned("clear", 0, None, <<>>, load_log(store).log, FALSE)])

\* the process dies in the middle of a writing method.  What was not synced
\* may be on disk in part: after File::create any prefix of the text being
\* written, after write_all any prefix of the text written.
Crash ==
    /\ store.impl = "file"
    /\ store.op.step \in {"created", "written", "synced"}
    /\ \E text \in (IF store.op.step = "synced"
                    THEN {store.files[temp_path(store.op.path)].text}
                    ELSE Prefixes(store.op.json)) :
          StoreStep([store EXCEPT
             !.files[temp_path(store.op.path)].text = text,
             !.op.step = "crashed"])

StorageNext ==
    \/ \E term \in StoreTerms, voted_for \in StoreVotes : MemSave(term, voted_for)
    \/ \E entries \in StoreEntries : MemAppend(entries)
    \/ \E from_index \in 1..StoreMaxLog : MemTruncate(from_index)
    \/ MemClear
    \/ \E term \in StoreTerms, voted_for \in StoreVotes : FileSaveCreate(term, voted_for)
    \/ FileAppendNothing
    \/ \E entries \in StoreEntries : FileAppendCreate(entries)
    \/ \E from_index \in 1..StoreMaxLog : FileTruncateCreate(from_index)
    \/ WriteAll
    \/ SyncAll
    \/ Rename
    \/ FileClear
    \/ Crash

StorageSpec == StorageInit /\ [][StorageNext]_vars

\* C18 Storage round-trip, for both implementations and after any earlier
\* calls: after save_term_and_vote(t, v) has returned, load_term_and_vote
\* yields (t, v); after append_entries(E) has returned, load_log yields the
\* log stored before the call followed by E; a fresh or cleared store loads
\* (0, none) and the empty log.
StorageRoundTrip ==
    LET l == Loaded(store)
    IN  /\ l.ok
        /\ store.last.kind = "save"
           => l.term = store.last.term /\ l.voted_for = store.last.voted_for
        /\ store.last.kind = "append"
           => l.log = store.last.before_log \o store.last.entries
        /\ store.last.kind \in {"new", "clear"}
           => l.term = 0 /\ l.voted_for = None /\ l.log = <<>>

\* C18 witness: a FileStorage that holds term 1 and the entry of index 1 has
\* returned from append_entries of the entry of index 2, and load_log yields
\* both in order.
AppendedAfterClear ==
    /\ store.impl = "file"
    /\ store.last.kind = "append"
    /\ store.last.before_log = <<LogEntry(1, 1, 1)>>
    /\ store.last.entries = <<LogEntry(1, 2, 1)>>
    /\ load_log(store).log = <<LogEntry(1, 1, 1), LogEntry(1, 2, 1)>>
    /\ load_term_and_vote(store).term = 1
    /\ store.files["log.tmp"] = NoFile

\* C19 Storage append_entries is idempotent with the same tail: when
\* append_entries(E) returns for the second time in a row, load_log is what
\* it was after the first call.
AppendSameTailIdempotent ==
    (store.last.kind = "append" /\ store.last.repeat)
    => load_log(store).log = store.last.before_log

\* C20 Crash atomicity of FileStorage: from File::create of a writing method
\* until the next call, so at every point where the process can crash and in
\* what the crash leaves, the two loads decode and return together either what
\* they returned before the method was called or what they return after it.
CrashAtomic ==
    (store.impl = "file" /\ store.op.step # "idle")
    => \/ Loaded(store) = store.op.before
       \/ Loaded(store) = store.op.after

\* C20 witness: append_entries crashed after write_all with half of the text
\* of a two-entry log in log.tmp, and load_log still returns the one entry
\* stored before.
CrashedHalfWritten ==
    /\ store.impl = "file"
    /\ store.op.step = "crashed"
    /\ store.op.path = log_path
    /\ Len(store.op.after.log) = 2
    /\ Len(store.files["log.tmp"].text) = 6
    /\ load_log(store) = [ok |-> TRUE, log |-> <<LogEntry(1, 1, 1)>>]

\* ---------------------------------------------------------------------------
\* A cluster of one: RaftNode::new(1, vec![1]).  No peer exists; what the node
\* can still be handed is a message that names itself or a node outside the
\* cluster as its origin (the handlers do not look at cluster_nodes).
\* ---------------------------------------------------------------------------

single_node == <<1>>
Strangers == {Self, 2, 3}

SoloInit ==
    /\ nodes = [i \in Ids |-> new(i, single_node)]
    /\ msgs = {}
    /\ leaders = {}
    /\ granted = {}
    /\ committed = {}
    /\ applied = {}
    /\ prevote = NoPreVote
    /\ store = NoStore

SoloNext ==
    \/ VStartElection
    \/ \E term \in Terms, g \in BOOLEAN, from \in Strangers : VVoteResponse(term, g, from)
    \/ \E term \in Terms, leader_id \in Strangers : VHeartbeat(term, leader_id)

SoloSpec == SoloInit /\ [][SoloNext]_vars

\* C21 A single-node cluster elects itself: the step in which the only node of
\* a cluster calls start_election ends with the node being Leader.
SoloElectsItself ==
    [][ (Len(nodes[Self].cluster_nodes) = 1 /\ VStartElection)
        => nodes'[Self].state = "Leader" ]_vars

\* C22 become_follower(term) sets the role to Follower and clears
\* votes_received; for term > current_term it sets current_term = term and
\* voted_for = none; for term <= current_term it leaves current_term and
\* voted_for as they are.
BecomeFollowerKeepsVote ==
    \A term \in Terms :
       LET n == nodes[Self]
           f == become_follower(n, term)
       IN  /\ f.state = "Follower"
           /\ f.votes_received = <<>>
           /\ term > n.current_term => f.current_term = term /\ f.voted_for = None
           /\ term <= n.current_term
              => f.current_term = n.current_term /\ f.voted_for = n.voted_for

\* C23 handle_vote_request with term >= current_term: with voted_for taken
\* after the step down that term > current_term causes, the vote is granted
\* iff voted_for is none or the candidate, and the candidate's (last_log_term,
\* last_log_index) is lexicographically >= the receiver's; on a grant
\* voted_for is the candidate and the timer flag is true, otherwise voted_for
\* stays and the flag is false; the reply carries current_term after the call.
VoteRequestRule ==
    \A term \in Terms, c \in Others, i \in Indices, t \in Terms :
       ((i = 0) = (t = 0) /\ term >= nodes[Self].current_term)
       => LET n == nodes[Self]
              r == handle_vote_request(n, term, c, i, t)
              voted == IF term > n.current_term THEN None ELSE n.voted_for
              newer == \/ t > last_log_term(n)
                       \/ t = last_log_term(n) /\ i >= last_log_index(n)
              grant == voted \in {None, c} /\ newer
          IN  /\ r.vote_granted = grant
              /\ r.reset = grant
              /\ r.node.voted_for = IF grant THEN c ELSE voted
              /\ r.node.current_term = term
              /\ r.term = term

\* C23 witness: the node has voted for candidate 2 in term 2 and holds two
\* entries of term 1; the candidate's shorter log that ends in term 2 gets the
\* vote again, a log of equal length that ends in term 1 does too, a shorter
\* log of term 1 does not.
VotedOnNewerShorterLog ==
    LET n == nodes[Self]
    IN  /\ n.current_term = 2
        /\ n.voted_for = 2
        /\ last_log_index(n) = 2
        /\ last_log_term(n) = 1
        /\ handle_vote_request(n, 2, 2, 1, 2).vote_granted
        /\ handle_vote_request(n, 2, 2, 2, 1).vote_granted
        /\ ~handle_vote_request(n, 2, 2, 1, 1).vote_granted

\* C24 A stale request changes nothing: handle_vote_request and
\* handle_append_entries with term < current_term reply with the receiver's
\* current_term and granted / success = false, return the timer flag false and
\* leave every field of the node as it is.
StaleRequestIgnored ==
    \A term \in Terms :
       term < nodes[Self].current_term
       => /\ \A c \in Others, i \in Indices, t \in Terms :
                LET r == handle_vote_request(nodes[Self], term, c, i, t)
                IN  /\ r.node = nodes[Self]
                    /\ r.term = nodes[Self].current_term
                    /\ ~r.vote_granted
                    /\ ~r.reset
          /\ \A prev \in Indices, pt \in Terms, lc \in 0..(NodeMaxIndex + 1) :
                \A entries \in EntrySeqs(prev + 1, 1, term) :
                   LET r == handle_append_entries(nodes[Self], term, 2, prev, pt, entries, lc)
                   IN  /\ r.node = nodes[Self]
                       /\ r.term = nodes[Self].current_term
                       /\ ~r.success
                       /\ ~r.reset

\* C24 witness: a Leader of term 2 that has not voted for node 2 and holds one
\* entry is handed a VoteRequest and an AppendEntries of term 1 that it would
\* accept in term 1, and refuses both.
LeaderHandedStaleRequests ==
    LET n == nodes[Self]
    IN  /\ n.state = "Leader"
        /\ n.current_term = 2
        /\ Len(n.log) = 1
        /\ n.commit_index = 0
        /\ ~handle_vote_request(n, 1, 2, 2, 2).vote_granted
        /\ ~handle_append_entries(n, 1, 2, 0, 0, <<LogEntry(1, 1, 1)>>, 1).success

\* C25 Consistency check: handle_append_entries with term >= current_term and
\* prev_log_index > 0 succeeds only if the receiver holds an entry at
\* prev_log_index whose term is prev_log_term; when it holds none (whatever
\* prev_log_term is, 0 included) or one of another term, the reply is
\* success = false and log and commit_index are unchanged.
ConsistencyCheck ==
    \A term \in Terms, prev \in Indices, pt \in Terms, lc \in 0..(NodeMaxIndex + 1) :
       \A entries \in EntrySeqs(prev + 1, 1, term) :
          (term >= nodes[Self].current_term /\ prev > 0)
          => LET n == nodes[Self]
                 r == handle_append_entries(n, term, 2, prev, pt, entries, lc)
                 held == get_entry(n, prev) # NoEntry /\ get_entry(n, prev).term = pt
             IN  /\ r.success => held
                 /\ ~held => /\ r.node.log = n.log
                             /\ r.node.commit_index = n.commit_index

\* whether an incoming entry meets an entry of the same index and another term
Conflicts(n, entries) ==
    \E k \in DOMAIN entries :
       /\ get_entry(n, entries[k].index) # NoEntry
       /\ get_entry(n, entries[k].index).term # entries[k].term

\* C26 Merge on an accepted AppendEntries: the resulting log is the receiver's
\* log up to prev_log_index, followed by the incoming entries, followed by the
\* old entries beyond the last incoming one when no incoming entry met an
\* entry of the same index and another term.
MergeResult ==
    \A term \in Terms, prev \in Indices, pt \in Terms, lc \in 0..(NodeMaxIndex + 1) :
       \A entries \in EntrySeqs(prev + 1, 1, term) :
          LET n == nodes[Self]
              r == handle_append_entries(n, term, 2, prev, pt, entries, lc)
              upto == SelectSeq(n.log, LAMBDA e : e.index <= prev)
              beyond == SelectSeq(n.log, LAMBDA e : e.index > prev + Len(entries))
          IN  ((prev = 0 => pt = 0) /\ r.success)
              => r.node.log = upto \o entries \o
                              (IF Conflicts(n, entries) THEN <<>> ELSE beyond)

\* C27 handle_append_entries with term >= current_term leaves the node
\* Follower with current_term = term and returns the timer flag true, whether
\* the consistency check passes or fails.
AppendEntriesStepsDown ==
    \A term \in Terms, prev \in Indices, pt \in Terms, lc \in 0..(NodeMaxIndex + 1) :
       \A entries \in EntrySeqs(prev + 1, 1, term) :
          term >= nodes[Self].current_term
          => LET r == handle_append_entries(nodes[Self], term, 2, prev, pt, entries, lc)
             IN  /\ r.node.state = "Follower"
                 /\ r.node.current_term = term
                 /\ r.term = term
                 /\ r.reset

\* C27 witness: a Leader of term 2 with one entry steps down on an
\* AppendEntries of its own term both when the check fails (prev 1 / term 1
\* against its entry of term 2) and when it passes.
LeaderStepsDownOnSameTerm ==
    LET n == nodes[Self]
        refused == handle_append_entries(n, 2, 2, 1, 1, <<>>, 0)
        accepted == handle_append_entries(n, 2, 2, 1, 2, <<>>, 0)
    IN  /\ n.state = "Leader"
        /\ n.current_term = 2
        /\ n.log = <<LogEntry(2, 1, 1)>>
        /\ ~refused.success /\ refused.reset /\ refused.node.state = "Follower"
        /\ accepted.success /\ accepted.reset /\ accepted.node.state = "Follower"

Max(a, b) == IF a > b THEN a ELSE b

\* C28 Follower commit update: after an accepted AppendEntries commit_index is
\* max(old commit_index, min(leader_commit, last_log_index() after the
\* merge)); it is untouched when the message is rejected.
FollowerCommitUpdate ==
    \A term \in Terms, prev \in Indices, pt \in Terms, lc \in 0..(NodeMaxIndex + 1) :
       \A entries \in EntrySeqs(prev + 1, 1, term) :
          (prev = 0 => pt = 0)
          => LET n == nodes[Self]
                 r == handle_append_entries(n, term, 2, prev, pt, entries, lc)
             IN  IF r.success
                 THEN r.node.commit_index =
                         Max(n.commit_index, Min(lc, last_log_index(r.node)))
                 ELSE r.node.commit_index = n.commit_index

\* the indices the claim lets a leader commit: beyond old_commit, holding an
\* entry of the leader's term, and matched by a quorum (the leader included)
Committable(n, old_commit) ==
    {N \in 1..NodeMaxIndex :
        /\ N > old_commit
        /\ get_entry(n, N) # NoEntry
        /\ get_entry(n, N).term = n.current_term
        /\ 1 + Cardinality({p \in DOMAIN n.match_index :
                               p # n.id /\ n.match_index[p] >= N}) >= quorum_size(n)}

\* C29 Leader commit advancement: after a Leader has handled a successful
\* AppendEntriesResponse, commit_index is the largest committable index, or
\* the old commit_index when there is none, and the handler returns true
\* exactly when commit_index increased.
LeaderCommitAdvance ==
    \A term \in Terms, from \in Others, hint \in Indices :
       (nodes[Self].state = "Leader" /\ term <= nodes[Self].current_term)
       => LET n == nodes[Self]
              r == handle_append_entries_response(n, term, TRUE, from, hint)
              C == Committable(r.node, n.commit_index)
          IN  /\ r.node.commit_index =
                    IF C = {} THEN n.commit_index
                    ELSE CHOOSE N \in C : \A M \in C : M <= N
              /\ r.advanced = (r.node.commit_index > n.commit_index)

\* C29 witness: a Leader with two entries of its term went from commit_index
\* 0 to 2 on the acknowledgement of index 2 by node 2 alone.
CommittedBothAtOnce ==
    LET n == nodes[Self]
    IN  /\ n.state = "Leader"
        /\ n.current_term = 1
        /\ n.log = <<LogEntry(1, 1, 1), LogEntry(1, 2, 1)>>
        /\ n.match_index = [p \in Others |-> IF p = 2 THEN 2 ELSE 0]
        /\ n.commit_index = 2
        /\ n.last_applied = 0

\* ---------------------------------------------------------------------------
\* The cluster whose AppendEntriesResponse messages reach the leader through
\* on_message of the raft-wasm component.  The message has no hint field, and
\* on_message hands the core the constant 0 as match_index_hint.  The
\* component never calls get_entries_to_apply, so nothing is applied here.
\* ---------------------------------------------------------------------------

\* the AppendEntriesResponse arm of on_message: the node after the dispatch
on_message(n, from_node, term, success) ==
    handle_append_entries_response(n, term, success, from_node, 0).node

OnMessageAppendEntriesResponse(i, m) ==
    /\ m.mtype = "AppendEntriesResponse"
    /\ m.to = i
    /\ LET after == on_message(nodes[i], m.from, m.term, m.success)
       IN  /\ nodes' = [nodes EXCEPT ![i] = after]
           /\ committed' = committed \cup CoveredEntries(nodes[i], after)
    /\ UNCHANGED <<prevote, store, msgs, leaders, granted, applied>>

WasmNext ==
    \/ \E i \in Ids : Timeout(i, MaxElections)
    \/ \E j \in Ids, m \in msgs : RecvVoteRequest(j, m)
    \/ \E i \in Ids, m \in msgs : RecvVoteResponse(i, m)
    \/ \E i \in Ids, command \in Commands : ClientRequest(i, command)
    \/ \E i \in Ids, j \in Ids : SendAppendEntries(i, j, MaxAppendEntries)
    \/ \E i \in Ids : SendHeartbeat(i, MaxAppendEntries)
    \/ \E j \in Ids, m \in msgs : RecvAppendEntries(j, m)
    \/ \E i \in Ids, m \in msgs : OnMessageAppendEntriesResponse(i, m)

WasmSpec == Init /\ [][WasmNext]_vars

\* C30 For every successful AppendEntriesResponse in flight that its Leader
\* would handle, the dispatch through on_message leaves match_index of the
\* peer at the index of the last entry of the acknowledged AppendEntries
\* (prev_log_index plus the number of entries, which the response record of
\* the model carries along) and next_index of the peer at that index plus one.
MatchIndexFollowsAck ==
    \A m \in msgs :
       ( /\ m.mtype = "AppendEntriesResponse"
         /\ m.success
         /\ nodes[m.to].state = "Leader"
         /\ m.term <= nodes[m.to].current_term )
       => LET after == on_message(nodes[m.to], m.from, m.term, m.success)
          IN  /\ after.match_index[m.from] = m.match_index_hint
              /\ after.next_index[m.from] = m.match_index_hint + 1

\* C31 handle_append_entries_response on a node that is not Leader (term not
\* above current_term), or with term < current_term in any state, returns the
\* node unchanged in every field and reports no commit advance, for every
\* success flag, peer and hint.
StaleAppendResponseIgnored ==
    \A term \in Terms, success \in BOOLEAN, from \in Others, hint \in Indices :
       LET n == nodes[Self]
       IN  ( \/ (n.state # "Leader" /\ term <= n.current_term)
             \/ term < n.current_term )
           => LET r == handle_append_entries_response(n, term, success, from, hint)
              IN  r.node = n /\ ~r.advanced

\* C32 handle_vote_response with term <= current_term on a node that is not
\* Candidate, or with term < current_term on a Candidate, returns the node
\* unchanged in every field and the result false, granted or not; with
\* term > current_term the node is a Follower of that term afterwards and the
\* result is false.
StaleVoteResponseIgnored ==
    \A term \in Terms, g \in BOOLEAN, from \in Others :
       LET n == nodes[Self]
           r == handle_vote_response(n, term, g, from)
       IN  /\ ( \/ (n.state # "Candidate" /\ term <= n.current_term)
                \/ (n.state = "Candidate" /\ term < n.current_term) )
              => (r.node = n /\ ~r.became_leader)
           /\ term > n.current_term
              => /\ r.node.state = "Follower"
                 /\ r.node.current_term = term
                 /\ ~r.became_leader

\* C32 witness: a Candidate of term 2 that holds only its own vote is handed a
\* grant of term 1 from node 2, which would complete its quorum, and stays a
\* Candidate with one vote.
CandidateHandedOldGrant ==
    LET n == nodes[Self]
    IN  /\ n.state = "Candidate"
        /\ n.current_term = 2
        /\ n.votes_received = <<Self>>
        /\ handle_vote_response(n, 1, TRUE, 2).node = n

\* C33 Whenever handle_vote_response reports that the node just became
\* leader, the node is Leader with votes_received empty, next_index and
\* match_index hold exactly the peers, and for every peer next_index is
\* last_log_index() + 1 and match_index is 0, whatever the maps held before.
LeaderStateReinitialized ==
    \A term \in Terms, g \in BOOLEAN, from \in Others :
       LET r == handle_vote_response(nodes[Self], term, g, from)
       IN  r.became_leader
           => /\ r.node.state = "Leader"
              /\ r.node.votes_received = <<>>
              /\ DOMAIN r.node.next_index = Others
              /\ DOMAIN r.node.match_index = Others
              /\ \A p \in Others :
                    /\ r.node.next_index[p] = last_log_index(r.node) + 1
                    /\ r.node.match_index[p] = 0

\* C33 witness: a Candidate that was Leader before, still holds
\* match_index 2 for node 2 and next_index 1 for node 3 with two entries in
\* its log, wins the election with the grant of node 2.
WinsAgainWithOldIndices ==
    LET n == nodes[Self]
    IN  /\ n.state = "Candidate"
        /\ Len(n.log) = 2
        /\ DOMAIN n.match_index = Others
        /\ n.match_index[2] = 2
        /\ n.next_index[3] = 1
        /\ handle_vote_response(n, n.current_term, TRUE, 2).became_leader

\* C34 In every state get_entries_to_apply yields the entries with the indices
\* last_applied + 1 .. commit_index, one per index and in this order, leaves
\* last_applied = commit_index, and a second call right after it yields
\* nothing and changes nothing.
AppliesEveryCommittedIndex ==
    LET n == nodes[Self]
        r == get_entries_to_apply(n)
        again == get_entries_to_apply(r.node)
    IN  /\ Len(r.entries) = IF n.commit_index > n.last_applied
                            THEN n.commit_index - n.last_applied ELSE 0
        /\ \A k \in DOMAIN r.entries :
              /\ r.entries[k].index = n.last_applied + k
              /\ r.entries[k] = get_entry(n, n.last_applied + k)
        /\ r.node.last_applied = n.commit_index
        /\ again.entries = <<>>
        /\ again.node = r.node

\* ---------------------------------------------------------------------------
\* Catch-up of one follower: node 1 has just won the election of term
\* CatchUpTerm + 1, node 2 is a Follower with a log of its own.  One
\* AppendEntries exchange is in flight at a time: the leader builds the message
\* for the peer (create_append_entries), the peer handles it, and the leader
\* handles the response with the hint the core's tests pass, the index of the
\* last entry sent.  The leader may take client commands in between.
\* ---------------------------------------------------------------------------

\* ---- bounds ----
\* highest term of an entry written before the election
CatchUpTerm == 2
\* entries in a log before the election, and entries the leader may hold
CatchUpLogLen == 2
CatchUpAppends == 3

RECURSIVE OldLogs(_, _)
\* the logs with indices first.. and non-decreasing terms low..CatchUpTerm
OldLogs(first, low) ==
    {<<>>} \cup
    (IF first > CatchUpLogLen
     THEN {}
     ELSE UNION { { <<LogEntry(t, first, 1)>> \o rest : rest \in OldLogs(first + 1, t) }
                  : t \in low..CatchUpTerm })

CatchUpLeader == 1
CatchUpPeer == 2

\* Log Matching: two logs that agree on the term of an index agree up to it
LogsMatch(a, b) ==
    \A k \in (DOMAIN a) \cap (DOMAIN b) :
       a[k].term = b[k].term => \A j \in 1..k : a[j] = b[j]

CatchUpInit ==
    /\ \E leader_log \in OldLogs(1, 1), peer_log \in OldLogs(1, 1) :
          /\ LogsMatch(leader_log, peer_log)
          /\ nodes = [i \in Ids |->
                        IF i = CatchUpLeader
                        THEN become_leader([new(i, cluster_nodes) EXCEPT
                                               !.current_term = CatchUpTerm + 1,
                                               !.voted_for = i,
                                               !.log = leader_log])
                        ELSE IF i = CatchUpPeer
                        THEN [new(i, cluster_nodes) EXCEPT
                                 !.current_term = CatchUpTerm,
                                 !.log = peer_log]
                        ELSE new(i, cluster_nodes)]
    /\ msgs = {}
    /\ leaders = {}
    /\ granted = {}
    /\ committed = {}
    /\ applied = {}
    /\ prevote = NoPreVote
    /\ store = NoStore

\* the leader builds the next AppendEntries for the peer once the last
\* exchange is over
CatchUpSend ==
    /\ msgs = {}
    /\ LET m == create_append_entries(nodes[CatchUpLeader], CatchUpPeer)
       IN  /\ m # NoMessage
           /\ msgs' = {[mtype |-> "AppendEntries", from |-> CatchUpLeader,
                        to |-> {CatchUpPeer},
                        term |-> m.term, leader_id |-> m.leader_id,
                        prev_log_index |-> m.prev_log_index,
                        prev_log_term |-> m.prev_log_term,
                        entries |-> m.entries, leader_commit |-> m.leader_commit]}
    /\ UNCHANGED <<prevote, store, nodes, leaders, granted, committed, applied>>

\* the peer handles the message; its response takes the message's place
CatchUpRecv ==
    \E m \in msgs :
       /\ m.mtype = "AppendEntries"
       /\ LET r == handle_append_entries(nodes[CatchUpPeer], m.term, m.leader_id,
                                         m.prev_log_index, m.prev_log_term,
                                         m.entries, m.leader_commit)
          IN  /\ nodes' = [nodes EXCEPT ![CatchUpPeer] = r.node]
              /\ msgs' = {[mtype |-> "AppendEntriesResponse", from |-> CatchUpPeer,
                           to |-> m.from, term |-> r.term, success |-> r.success,
                           match_index_hint |-> IF r.success
                                                THEN m.prev_log_index + Len(m.entries)
                                                ELSE 0]}
       /\ UNCHANGED <<prevote, store, leaders, granted, committed, applied>>

\* the leader handles the response, which ends the exchange
CatchUpResponse ==
    \E m \in msgs :
       /\ m.mtype = "AppendEntriesResponse"
       /\ LET r == handle_append_entries_response(nodes[CatchUpLeader], m.term, m.success,
                                                  m.from, m.match_index_hint)
          IN  /\ nodes' = [nodes EXCEPT ![CatchUpLeader] = r.node]
              /\ committed' = committed \cup CoveredEntries(nodes[CatchUpLeader], r.node)
       /\ msgs' = {}
       /\ UNCHANGED <<prevote, store, leaders, granted, applied>>

\* a client command on the leader
CatchUpAppend ==
    /\ nodes[CatchUpLeader].state = "Leader"
    /\ Len(nodes[CatchUpLeader].log) < CatchUpAppends
    /\ nodes' = [nodes EXCEPT ![CatchUpLeader] = append_entry(nodes[CatchUpLeader], 1)]
    /\ UNCHANGED <<prevote, store, msgs, leaders, granted, committed, applied>>

CatchUpNext ==
    \/ CatchUpSend
    \/ CatchUpRecv
    \/ CatchUpResponse
    \/ CatchUpAppend

CatchUpSpec == CatchUpInit /\ [][CatchUpNext]_vars

\* every message built is delivered and answered, and the leader keeps
\* building messages; client commands may stop at any time
FairCatchUpSpec ==
    /\ CatchUpSpec
    /\ WF_vars(CatchUpSend)
    /\ WF_vars(CatchUpRecv)
    /\ WF_vars(CatchUpResponse)

SplitLogLen == 2
SplitAppendEntries == 4

SplitNodes ==
    [i \in Ids |->
        IF i = 1
        THEN [new(1, cluster_nodes) EXCEPT !.current_term = 2, !.voted_for = 1,
                            !.state = "Leader", !.log = <<LogEntry(1, 1, 1)>>,
                            !.next_index = [p \in Peers(1) |-> 2],
                            !.match_index = [p \in Peers(1) |-> 0]]
        ELSE IF i = 2
        THEN [new(2, cluster_nodes) EXCEPT !.current_term = 2, !.voted_for = 2,
                            !.state = "Leader",
                            !.next_index = [p \in Peers(2) |-> 1],
                            !.match_index = [p \in Peers(2) |-> 0]]
        ELSE [new(3, cluster_nodes) EXCEPT !.current_term = 2, !.voted_for = 1]]

SplitInit ==
    /\ nodes = SplitNodes
    /\ msgs = {}
    /\ leaders = {<<1, 1>>, <<1, 2>>, <<2, 1>>, <<2, 2>>}
    /\ granted = {<<3, 1, 1>>, <<3, 1, 2>>, <<3, 2, 1>>, <<3, 2, 2>>}
    /\ committed = {}
    /\ applied = {}
    /\ prevote = NoPreVote
    /\ store = NoStore

\* the way from DualSpec's start state to SplitNodes: the two leaders of
\* term 1 depose each other with their heartbeats, node 1 having written one
\* entry, and both win an election of term 2 with the vote of node 3
SplitElections == 2
SplitHeartbeats == 3

SplitPathNext ==
    \/ \E i \in Ids : Timeout(i, SplitElections)
    \/ \E j \in Ids, m \in msgs : RecvVoteRequest(j, m)
    \/ \E i \in Ids, m \in msgs : RecvVoteResponse(i, m)
    \/ \E i \in Ids, command \in Commands : ClientRequest(i, command)
    \/ \E i \in Ids : SendHeartbeat(i, SplitHeartbeats)
    \/ \E j \in Ids, m \in msgs : RecvAppendEntries(j, m)

SplitPathSpec == DualInit /\ [][SplitPathNext]_vars

\* SplitPathSpec reaches the nodes and the history SplitSpec starts from
SplitReached ==
    /\ nodes = SplitNodes
    /\ leaders = {<<1, 1>>, <<1, 2>>, <<2, 1>>, <<2, 2>>}
    /\ granted = {<<3, 1, 1>>, <<3, 1, 2>>, <<3, 2, 1>>, <<3, 2, 2>>}
    /\ committed = {}
    /\ applied = {}

\* a client command on a leader
SplitClientRequest(i) ==
    /\ nodes[i].state = "Leader"
    /\ Len(nodes[i].log) < SplitLogLen
    /\ nodes' = [nodes EXCEPT ![i] = append_entry(nodes[i], i)]
    /\ UNCHANGED <<prevote, store, msgs, leaders, granted, committed, applied>>

SplitNext ==
    \/ \E i \in Ids : SplitClientRequest(i)
    \/ \E i \in Ids, j \in Ids : SendAppendEntries(i, j, SplitAppendEntries)
    \/ \E j \in Ids, m \in msgs : RecvAppendEntries(j, m)
    \/ \E i \in Ids, m \in msgs : RecvAppendEntriesResponse(i, m)
    \/ \E i \in Ids : Apply(i)

SplitSpec == SplitInit /\ [][SplitNext]_vars

\* C36 No step of the cluster removes or replaces an entry of a node whose
\* index is at or below that node's commit_index: the entry at every such
\* index is the same after the step.
CommittedEntriesStay ==
    [][ \A j \in Ids : \A k \in 1..nodes[j].commit_index :
           get_entry(nodes[j], k) # NoEntry
           => get_entry(nodes'[j], k) = get_entry(nodes[j], k) ]_vars

\* C37 No step of the cluster that leaves a node Leader of the same term
\* lowers its match_index for any peer.
MatchIndexMonotonic ==
    [][ \A i \in Ids :
          ( /\ nodes[i].state = "Leader"
            /\ nodes'[i].state = "Leader"
            /\ nodes'[i].current_term = nodes[i].current_term )
          => \A p \in DOMAIN nodes[i].match_index :
                nodes'[i].match_index[p] >= nodes[i].match_index[p] ]_vars

\* C38 In every state of the cluster in which a node is Leader,
\* match_index[p] < next_index[p] <= last_log_index() + 1 for every peer p.
LeaderIndicesInRange ==
    \A i \in Ids :
       nodes[i].state = "Leader"
       => \A p \in DOMAIN nodes[i].next_index :
             /\ nodes[i].match_index[p] < nodes[i].next_index[p]
             /\ nodes[i].next_index[p] <= last_log_index(nodes[i]) + 1

====
